---- MODULE Spec2Model ----
(***************************************************************************)
(* Model of the incremental crawl engine of the f319 hybrid crawler        *)
(* (src/f319_hybrid_crawler.py, src/database.py, src/config.py).           *)
(*                                                                         *)
(* A thread (container) is a model value; its posts (items) are numbered   *)
(* 1..remoteN[t] in the remote chronological order, so post i of thread t  *)
(* stands for the globally unique post id of that post.  The remote lays   *)
(* the posts out on pages of PageSize posts.  0 stands for None.           *)
(***************************************************************************)
EXTENDS Integers, Sequences, FiniteSets, TLC

\* ---------------------------------------------------------------- bounds
MaxItems == 6          \* posts a remote thread can hold
PageSize == 3          \* posts the remote shows on one thread page
batch_size == 3        \* CrawlerConfig.batch_size, scaled down
MaxFaults == 2         \* failed fetches / store operations / exceptions in one behaviour
MaxCycles == 3         \* calls of collect_today_threads in one behaviour
MaxCrashes == 1        \* process interruptions in one behaviour
MaxRetries == 3        \* largest CrawlerConfig.max_retries
MaxFetchCalls == 3     \* calls of _fetch_page in one behaviour

\* ------------------------------------------------------ program constants
max_thread_workers == 2
retry_delay == 3
delay_between_requests == 2
thread_start_date == 2 \* CrawlerConfig.thread_start_date, as a day number

Threads == {"t1", "t2", "t3"}
None == 0
DateFormats == {"d/m/Y, H:M", "d/m/Y", "d-m-Y, H:M", "d-m-Y"}

VARIABLES
    \* the remote forum
    remoteN,        \* [Threads -> 1..MaxItems]: posts of the thread on the remote
    emptyBody,      \* [Threads -> SUBSET posts]: posts whose content is empty or blank
    startDate,      \* [Threads -> [fmt, day]]: the creation date text of the listing
    listing,        \* the listing pages of find-new/posts: a sequence of sequences of threads
    remoteCap,      \* posts a thread of this forum can grow to
    linkNA,         \* threads whose listing entry has no usable link
    \* configuration
    filterOn,       \* CrawlerConfig.enable_thread_date_filter
    maxPagesArg,    \* the max_pages argument of collect_today_threads
    \* the store (database.py)
    rows,           \* threads with a row in f319_list
    wm,             \* [Threads -> post | None]: f319_list.last_post_id
    posts,          \* [Threads -> SUBSET posts]: rows of f319_post, by thread
    \* collect_today_threads
    cycle, phase, lpage, queue, stats, totalCollected,
    \* one _crawl_single_thread / collect_thread_posts run per thread
    pc, isNew, totalPages, page, buffer, newestPostId, lastCrawledPostId,
    lastPostId, collected,
    \* fault budget
    faults, crashes,
    \* history of the current cycle, read by the properties only
    trace,          \* [Threads -> Seq([op, arg])]: fetches and store operations of the run
    emitted,        \* [Threads -> Seq(post)]: posts appended to the buffer in the run
    atStart,        \* [Threads -> [row, wm, posts]]: the store when the run started
    clean,          \* [Threads -> BOOLEAN]: no fault hit the run so far
    raised,         \* threads whose run raised an exception in this cycle
    runs,           \* [Threads -> Nat]: runs of _crawl_single_thread in this cycle
    accepted,       \* threads submitted to the pool in this cycle
    listed,         \* threads whose listing page was processed in this cycle
    prevClean,      \* [Threads -> BOOLEAN]: the run of the cycle before completed clean, the
                    \* cycle ran to its end, and the remote is unchanged since
    intr,           \* [Threads -> "no"|"fwd"|"rev"]: the last run was interrupted after a flush + update
    resuming,       \* [Threads -> "no"|"fwd"|"rev"]: intr of the run before the current one
    skippedBefore,  \* [Threads -> SUBSET Nat]: the pages that the run of the cycle before, a
                    \* forward run of a new thread that returned, fetched without success,
                    \* the remote being unchanged since
    \* one call of _fetch_page, attempt by attempt
    max_retries,    \* CrawlerConfig.max_retries
    fState,         \* "idle" | "loop" | "returned"
    attempt,        \* the loop variable of _fetch_page
    fResult,        \* "pending" | "soup" | "None": what the call returned
    fLog,           \* the session.get calls and sleeps of the call, in order
    fCalls,         \* calls of _fetch_page so far
    fHist,          \* what the calls so far returned
    \* the tables of database.py, row by row
    f319_post,      \* Seq([id, content]): the rows of f319_post
    f319_list,      \* Seq([id, link, last_post_id]): the rows of f319_list
    dbRet,          \* [op, id, val, failed]: the last Database call and what it returned
    \* one call of _collect_posts_from_page
    collectCall,    \* [soup, empty, last, stored, done, ret]: the page, the watermark and
                    \* the store given to a call, and what it returned
    \* the jobs of CrawlerScheduler
    sched           \* [pc, log, jobs]: the position inside run_sequential_crawlers, what
                    \* the scheduler did so far, and the jobs started so far

remoteVars == <<remoteN, emptyBody, startDate, listing, remoteCap, linkNA>>
configVars == <<filterOn, maxPagesArg>>
storeVars == <<rows, wm, posts>>
cycleVars == <<cycle, phase, lpage, queue, stats, totalCollected>>
runVars == <<pc, isNew, totalPages, page, buffer, newestPostId, lastCrawledPostId,
             lastPostId, collected>>
budgetVars == <<faults, crashes>>
histVars == <<trace, emitted, atStart, clean, raised, runs, accepted, listed,
              prevClean, intr, resuming>>
fetchVars == <<max_retries, fState, attempt, fResult, fLog, fCalls, fHist>>
tableVars == <<f319_post, f319_list, dbRet>>
callVars == <<collectCall>>
schedVars == <<sched>>
pastVars == <<skippedBefore>>
vars == <<remoteVars, configVars, storeVars, cycleVars, runVars, budgetVars, histVars,
          fetchVars, tableVars, callVars, schedVars, pastVars>>

\* ------------------------------------------------------------ pure helpers
Min(a, b) == IF a <= b THEN a ELSE b

MaxOf(S) == IF S = {} THEN None ELSE CHOOSE x \in S : \A y \in S : y <= x

Reverse(s) == [i \in 1..Len(s) |-> s[Len(s) + 1 - i]]

SeqToSet(s) == {s[i] : i \in 1..Len(s)}

Take(s, k) == SubSeq(s, 1, Min(k, Len(s)))

DropAll(s, k) == <<>>

Drop(s, k) == SubSeq(s, Min(k, Len(s)) + 1, Len(s))

Ev(op, arg, res) == [op |-> op, arg |-> arg, res |-> res]

\* a call of batch_insert_posts: the size of the batch, the value returned, the batch
InsertEv(batch, inserted) ==
    [op |-> "insert", arg |-> Len(batch), res |-> inserted, items |-> batch]

\* ------------------------------------------------------------- the remote
\* number of pages the remote shows for a thread of n posts
RemotePages(n) == IF n <= PageSize THEN 1 ELSE (n + PageSize - 1) \div PageSize

\* the posts of page p, in on-page (chronological) order
PageItems(n, p) ==
    LET first == (p - 1) * PageSize + 1
        last == Min(p * PageSize, n)
    IN  IF last < first THEN <<>> ELSE [i \in 1..(last - first + 1) |-> first + i - 1]

\* a fetched page: its posts and the "/ N" of its page navigation (0: no navigation)
Soup(n, p) == [items |-> PageItems(n, p),
               nav |-> IF RemotePages(n) > 1 THEN RemotePages(n) ELSE 0]

\* the page of the remote that holds post i
PageOf(i) == (i + PageSize - 1) \div PageSize

NonEmpty(t) == (1..remoteN[t]) \ emptyBody[t]

\* ------------------------------------------------------------ f319 crawler
\* _get_total_pages
GetTotalPagesOne(soup) == 1

GetTotalPages(soup) == IF soup.nav > 0 THEN soup.nav ELSE 1

\* _parse_thread_date: the day, or None when no format matches
ParseThreadDate(d) == IF d.fmt \in DateFormats THEN d.day ELSE None

\* _is_thread_after_start_date
IsThreadAfterStartDateStrict(d, enabled) ==
    IF ~enabled THEN TRUE
    ELSE IF ParseThreadDate(d) = None THEN TRUE
    ELSE ParseThreadDate(d) > thread_start_date

IsThreadAfterStartDate(d, enabled) ==
    IF ~enabled THEN TRUE
    ELSE IF ParseThreadDate(d) = None THEN TRUE
    ELSE ParseThreadDate(d) >= thread_start_date

\* the loop of _collect_posts_from_page over the reversed posts of the page
RECURSIVE CollectWalk(_, _, _, _, _)
CollectWalk(rev, empty, last, stored, acc) ==
    IF rev = <<>> THEN acc
    ELSE LET id == Head(rev) IN
         IF id \in empty THEN CollectWalk(Tail(rev), empty, last, stored, acc)
         ELSE IF last # None /\ id = last THEN [acc EXCEPT !.found = TRUE]
         ELSE IF id \in stored
              THEN CollectWalk(Tail(rev), empty, last, stored,
                               [acc EXCEPT !.old = @ + 1])
              ELSE CollectWalk(Tail(rev), empty, last, stored,
                               [acc EXCEPT !.old = 0, !.posts = Append(@, id)])

\* the order in which _collect_posts_from_page walks the posts of a page
WalkOrderOnPage(items) == items

WalkOrder(items) == Reverse(items)

\* _collect_posts_from_page: (posts_list, old_posts_count, found_last_post)
CollectPostsFromPageNoWatermark(soup, empty, last, stored) ==
    CollectWalk(WalkOrder(soup.items), empty, None, stored,
                [posts |-> <<>>, old |-> 0, found |-> FALSE])

CollectPostsFromPage(soup, empty, last, stored) ==
    CollectWalk(WalkOrder(soup.items), empty, last, stored,
                [posts |-> <<>>, old |-> 0, found |-> FALSE])

\* ---------------------------------------------------------------- database
\* Database.thread_exists_by_link
ThreadExistsByLink(t) == t \in rows

\* Database.insert_f319_list: INSERT ... ON CONFLICT (id) DO NOTHING
InsertF319ListSkipped(t, ok) == rows

InsertF319List(t, ok) == IF ok THEN rows \cup {t} ELSE rows

\* Database.get_last_post_id
GetLastPostId(t) == IF t \in rows THEN wm[t] ELSE None

\* Database.update_last_post_id: UPDATE f319_list SET last_post_id WHERE id
UpdateLastPostIdNoWhere(t, id, ok) ==
    IF ok /\ t \in rows THEN [x \in Threads |-> IF x \in rows THEN id ELSE wm[x]] ELSE wm

UpdateLastPostId(t, id, ok) == IF ok /\ t \in rows THEN [wm EXCEPT ![t] = id] ELSE wm

\* ------------------------------------------------- database, row by row
\* the ids and contents of the posts offered to the store, the longest batch
PostIds == {1, 2}
Contents == {"a", "b"}

\* psycopg2.extras.execute_values sends the rows in statements of page_size rows; its
\* default page_size (100) is the default batch_size (100), and is scaled with it
execute_values_page_size == batch_size

BatchIds == UNION {[1..n -> PostIds] : n \in 0..(execute_values_page_size + 1)}

IdsOf(table) == {table[i].id : i \in 1..Len(table)}

\* id VARCHAR(255) PRIMARY KEY with ON CONFLICT (id): the row meets a stored row
ConflictsNever(table, row) == FALSE

Conflicts(table, row) == row.id \in IdsOf(table)

\* one statement INSERT INTO ... VALUES rows ON CONFLICT (id) DO NOTHING
RECURSIVE InsertDoNothing(_, _, _)
InsertDoNothing(table, rs, n) ==
    IF rs = <<>> THEN [table |-> table, rowcount |-> n]
    ELSE IF Conflicts(table, Head(rs))
         THEN InsertDoNothing(table, Tail(rs), n)
         ELSE InsertDoNothing(Append(table, Head(rs)), Tail(rs), n + 1)

\* the statements execute_values sends for a batch, and the rows of statement k
NumStatements(rs) ==
    (Len(rs) + execute_values_page_size - 1) \div execute_values_page_size

StatementRows(rs, k) ==
    SubSeq(rs, (k - 1) * execute_values_page_size + 1,
           Min(k * execute_values_page_size, Len(rs)))

\* the rows a batch has sent before its statement k
SentBefore(rs, k) == SubSeq(rs, 1, Min((k - 1) * execute_values_page_size, Len(rs)))

\* Database.batch_insert_posts: the post ids stored after the call, when statement
\* failAt raised (0: none did)
BatchInsertPosts(stored, batch, failAt) ==
    IF failAt = 0 THEN stored \cup SeqToSet(batch)
    ELSE stored \cup SeqToSet(SentBefore(batch, failAt))

\* cursor.rowcount of execute_values: the rows the last statement inserted
Rowcount(stored, batch) ==
    LET k == NumStatements(batch)
    IN  Cardinality(SeqToSet(StatementRows(batch, k))
                        \ (stored \cup SeqToSet(SentBefore(batch, k))))

\* Database.batch_insert_posts: cursor.rowcount, or 0 on an empty batch or an error
BatchInserted(stored, batch, failAt) ==
    IF batch = <<>> \/ failAt # 0 THEN 0 ELSE Rowcount(stored, batch)

\* execute_values under autocommit: statement after statement, until statement
\* failAt raises (0: none does); cursor.rowcount is that of the last statement
RECURSIVE ExecuteValues(_, _, _, _, _)
ExecuteValues(table, rs, failAt, k, rowcount) ==
    IF k > NumStatements(rs) THEN [table |-> table, rowcount |-> rowcount, error |-> FALSE]
    ELSE IF k = failAt THEN [table |-> table, rowcount |-> rowcount, error |-> TRUE]
    ELSE LET r == InsertDoNothing(table, StatementRows(rs, k), 0)
         IN  ExecuteValues(r.table, rs, failAt, k + 1, r.rowcount)

\* Database.batch_insert_posts on the table
DbBatchInsertPosts(table, rs, failAt) ==
    IF rs = <<>> THEN [table |-> table, ret |-> 0, failed |-> FALSE]
    ELSE LET r == ExecuteValues(table, rs, failAt, 1, 0)
         IN  [table |-> r.table, ret |-> IF r.error THEN 0 ELSE r.rowcount,
              failed |-> r.error]

\* Database.insert_f319_post on the table
DbInsertF319Post(table, row, ok) ==
    IF ~ok THEN [table |-> table, ret |-> FALSE, failed |-> TRUE]
    ELSE LET r == InsertDoNothing(table, <<row>>, 0)
         IN  [table |-> r.table, ret |-> r.rowcount > 0, failed |-> FALSE]

\* Database.post_exists on the table
DbPostExists(table, id, ok) == ok /\ id \in IdsOf(table)

Ret(op, id, val, failed) == [op |-> op, id |-> id, val |-> val, failed |-> failed]

\* the thread ids and links offered to f319_list (id PRIMARY KEY, link UNIQUE)
ListIds == {"t1", "t2"}
Links == {"l1", "l2"}

\* the row insert_f319_list adds: the INSERT names no last_post_id, so it is NULL
NewListRow(id, link) == [id |-> id, link |-> link, last_post_id |-> None]

\* ON CONFLICT (id) DO NOTHING: what becomes of the stored row that has the id
OnConflictReplace(old, new) == new

OnConflict(old, new) == old

\* Database.insert_f319_list on the table; a new id with a stored link violates the
\* UNIQUE constraint, which psycopg2 raises and the method catches
DbInsertF319List(table, id, link, ok) ==
    IF ~ok THEN [table |-> table, ret |-> FALSE, failed |-> TRUE]
    ELSE IF id \in IdsOf(table)
         THEN [table |-> [i \in 1..Len(table) |->
                             IF table[i].id = id
                             THEN OnConflict(table[i], NewListRow(id, link))
                             ELSE table[i]],
               ret |-> FALSE, failed |-> FALSE]
    ELSE IF \E i \in 1..Len(table) : table[i].link = link
         THEN [table |-> table, ret |-> FALSE, failed |-> TRUE]
    ELSE [table |-> Append(table, NewListRow(id, link)), ret |-> TRUE, failed |-> FALSE]

\* Database.update_last_post_id on the table
DbUpdateLastPostId(table, id, last, ok) ==
    IF ~ok THEN [table |-> table, ret |-> FALSE, failed |-> TRUE]
    ELSE [table |-> [i \in 1..Len(table) |->
                        IF table[i].id = id
                        THEN [table[i] EXCEPT !.last_post_id = last] ELSE table[i]],
          ret |-> id \in IdsOf(table), failed |-> FALSE]

\* Database.get_last_post_id on the table
DbGetLastPostId(table, id, ok) ==
    IF ok /\ id \in IdsOf(table)
    THEN (CHOOSE r \in SeqToSet(table) : r.id = id).last_post_id
    ELSE None

\* ------------------------------------------------------------------- faults
\* a fetch that fails all its attempts, a store operation that fails, an exception
CanFail == faults < MaxFaults
Charge(ok) == faults' = IF ok THEN faults ELSE faults + 1

\* ---------------------------------------------------- collect_thread_posts
ActivePcs == {"probe", "page", "flush", "wm", "final", "finalwm", "ret"}
Running == {t \in Threads : pc[t] \in ActivePcs}

\* ThreadPoolExecutor(max_workers=max_thread_workers): a worker is idle
SlotFreeAlways == TRUE

SlotFree == Cardinality(Running) < max_thread_workers

\* range(1, total_pages + 1) and range(total_pages, 0, -1): first and last page
FirstPageSwapped(new, total) == IF new THEN total ELSE 1

FirstPage(new, total) == IF new THEN 1 ELSE total

LastForwardPageShort(total) == IF total > 1 THEN total - 1 ELSE total

LastForwardPage(total) == total

HasNextPageOneMore(new, p, total) == IF new THEN p + 1 <= total + 1 ELSE p - 1 >= 0

HasNextPage(new, p, total) == IF new THEN p + 1 <= LastForwardPage(total) ELSE p - 1 >= 1
NextPage(new, p) == IF new THEN p + 1 ELSE p - 1

\* last_crawled_post_id after the posts_list of a page, lines 375-376
LastCrawledLastAppended(old, posts_list) ==
    IF posts_list # <<>> THEN posts_list[Len(posts_list)] ELSE old

LastCrawled(old, posts_list) == IF posts_list # <<>> THEN posts_list[1] ELSE old

\* newest_post_id after the posts_list of a page, lines 408-409
NewestOfPage(old, posts_list) == IF posts_list # <<>> THEN posts_list[1] ELSE old

Newest(old, posts_list) ==
    IF old = None /\ posts_list # <<>> THEN posts_list[1] ELSE old

\* the marker a flush writes as the watermark: last_crawled_post_id or newest_post_id
Marker(t) == IF isNew[t] THEN lastCrawledPostId[t] ELSE newestPostId[t]

\* should_stop of the reverse loop, lines 413-416, from the result of the page
ShouldStopOnOld(r) == r.found \/ r.old > 0

ShouldStop(r) == r.found

\* where the page loop goes after the posts of a page were added to the buffer
AfterCollectWmFirst(buf, found) ==
    IF found THEN "final"
    ELSE IF Len(buf) >= batch_size THEN "wm" ELSE "next"

AfterCollect(buf, found) ==
    IF found THEN "final"
    ELSE IF Len(buf) >= batch_size THEN "flush" ELSE "next"

\* the end of a loop iteration: the next page, or the final flush
Advance(t, to) ==
    IF to = "next"
    THEN IF HasNextPage(isNew[t], page[t], totalPages[t])
         THEN /\ page' = [page EXCEPT ![t] = NextPage(isNew[t], page[t])]
              /\ pc' = [pc EXCEPT ![t] = "page"]
         ELSE /\ page' = page
              /\ pc' = [pc EXCEPT ![t] = "final"]
    ELSE /\ page' = page
         /\ pc' = [pc EXCEPT ![t] = to]

Log(t, e) == trace' = [trace EXCEPT ![t] = Append(@, e)]
\* time.sleep(delay_between_requests) is reached when the fetch returned a soup
DelaysAfterAlways(ok) == TRUE

DelaysAfter(ok) == ok

\* a fetch of the run and the delay that follows it, lines 350-354, 367-371, 400-404
LogFetch(t, op, p, ok) ==
    trace' = [trace EXCEPT ![t] =
                 @ \o <<Ev(op, p, IF ok THEN 1 ELSE 0)>>
                   \o (IF DelaysAfter(ok)
                       THEN <<Ev("delay", delay_between_requests, 0)>> ELSE <<>>)]

Dirty(t, ok) == clean' = [clean EXCEPT ![t] = @ /\ ok]

\* _crawl_single_thread, lines 441-462: existence check, upsert, then collect_thread_posts
Start(t) ==
    /\ phase = "pool"
    /\ queue # <<>> /\ t = Head(queue)
    /\ SlotFree
    /\ \E ok \in BOOLEAN :
        /\ ok \/ CanFail
        /\ Charge(ok)
        /\ rows' = InsertF319List(t, ok)
        /\ Log(t, Ev("upsert", 0, IF ok /\ t \notin rows THEN 1 ELSE 0))
        /\ clean' = [clean EXCEPT ![t] = ok]
    /\ queue' = Tail(queue)
    /\ isNew' = [isNew EXCEPT ![t] = ~ThreadExistsByLink(t)]
    /\ pc' = [pc EXCEPT ![t] = "probe"]
    /\ buffer' = [buffer EXCEPT ![t] = <<>>]
    /\ newestPostId' = [newestPostId EXCEPT ![t] = None]
    /\ lastCrawledPostId' = [lastCrawledPostId EXCEPT ![t] = None]
    /\ lastPostId' = [lastPostId EXCEPT ![t] = None]
    /\ collected' = [collected EXCEPT ![t] = 0]
    /\ totalPages' = [totalPages EXCEPT ![t] = 0]
    /\ page' = [page EXCEPT ![t] = 0]
    /\ atStart' = [atStart EXCEPT ![t] = [row |-> t \in rows, wm |-> wm[t], posts |-> posts[t]]]
    /\ runs' = [runs EXCEPT ![t] = @ + 1]
    /\ resuming' = [resuming EXCEPT ![t] = intr[t]]
    /\ intr' = [intr EXCEPT ![t] = "no"]
    /\ UNCHANGED <<pastVars, schedVars, callVars,
                   tableVars,
                   fetchVars,
                   remoteVars, configVars, wm, posts, cycle, phase, lpage, stats,
                   totalCollected, crashes, emitted, raised, accepted, listed, prevClean>>

\* collect_thread_posts, lines 343-359 and 390: the first fetch, total_pages, the stored watermark
Probe(t) ==
    /\ pc[t] = "probe"
    /\ \E ok \in BOOLEAN :
        /\ ok \/ CanFail
        /\ Charge(ok)
        /\ LogFetch(t, "probe", 1, ok)
        /\ Dirty(t, ok)
        /\ IF ok
           THEN LET total == GetTotalPages(Soup(remoteN[t], 1)) IN
                /\ totalPages' = [totalPages EXCEPT ![t] = total]
                /\ page' = [page EXCEPT ![t] = FirstPage(isNew[t], total)]
                /\ lastPostId' = [lastPostId EXCEPT ![t] =
                                    IF isNew[t] THEN None ELSE GetLastPostId(t)]
                /\ pc' = [pc EXCEPT ![t] = "page"]
           ELSE /\ pc' = [pc EXCEPT ![t] = "ret"]
                /\ UNCHANGED <<totalPages, page, lastPostId>>
    /\ UNCHANGED <<pastVars, schedVars, callVars,
                   tableVars,
                   fetchVars,
                   remoteVars, configVars, storeVars, cycleVars, isNew, buffer,
                   newestPostId, lastCrawledPostId, collected, crashes, emitted,
                   atStart, raised, runs, accepted, listed, prevClean, intr, resuming>>

\* one iteration of the forward loop up to the flush, lines 364-380
ForwardPage(t) ==
    /\ pc[t] = "page" /\ isNew[t]
    /\ \E ok \in BOOLEAN :
        /\ ok \/ CanFail
        /\ Charge(ok)
        /\ LogFetch(t, "fetch", page[t], ok)
        /\ Dirty(t, ok)
        /\ IF ok
           THEN LET r == CollectPostsFromPage(Soup(remoteN[t], page[t]), emptyBody[t],
                                              None, posts[t])
                    buf == buffer[t] \o r.posts
                IN  /\ lastCrawledPostId' = [lastCrawledPostId EXCEPT ![t] =
                                               LastCrawled(@, r.posts)]
                    /\ buffer' = [buffer EXCEPT ![t] = buf]
                    /\ emitted' = [emitted EXCEPT ![t] = @ \o r.posts]
                    /\ Advance(t, AfterCollect(buf, FALSE))
           ELSE /\ Advance(t, "next")
                /\ UNCHANGED <<lastCrawledPostId, buffer, emitted>>
    /\ UNCHANGED <<pastVars, schedVars, callVars,
                   tableVars,
                   fetchVars,
                   remoteVars, configVars, storeVars, cycleVars, isNew, totalPages,
                   newestPostId, lastPostId, collected, crashes, atStart, raised, runs,
                   accepted, listed, prevClean, intr, resuming>>

\* one iteration of the reverse loop up to the flush, lines 394-418
ReversePage(t) ==
    /\ pc[t] = "page" /\ ~isNew[t]
    /\ \E ok \in BOOLEAN :
        /\ ok \/ CanFail
        /\ Charge(ok)
        /\ LogFetch(t, "fetch", page[t], ok)
        /\ Dirty(t, ok)
        /\ IF ok
           THEN LET r == CollectPostsFromPage(Soup(remoteN[t], page[t]), emptyBody[t],
                                              lastPostId[t], posts[t])
                    buf == buffer[t] \o r.posts
                IN  /\ newestPostId' = [newestPostId EXCEPT ![t] = Newest(@, r.posts)]
                    /\ buffer' = [buffer EXCEPT ![t] = buf]
                    /\ emitted' = [emitted EXCEPT ![t] = @ \o r.posts]
                    /\ Advance(t, AfterCollect(buf, ShouldStop(r)))
           ELSE /\ Advance(t, "next")
                /\ UNCHANGED <<newestPostId, buffer, emitted>>
    /\ UNCHANGED <<pastVars, schedVars, callVars,
                   tableVars,
                   fetchVars,
                   remoteVars, configVars, storeVars, cycleVars, isNew, totalPages,
                   lastCrawledPostId, lastPostId, collected, crashes, atStart, raised,
                   runs, accepted, listed, prevClean, intr, resuming>>

\* the flush of one iteration, lines 381-384 and 419-422
Flush(t) ==
    /\ pc[t] = "flush"
    /\ LET batch == Take(buffer[t], batch_size) IN
       \E failAt \in 0..NumStatements(batch) :
        /\ failAt = 0 \/ CanFail
        /\ Charge(failAt = 0)
        /\ LET inserted == BatchInserted(posts[t], batch, failAt)
           IN  /\ posts' = [posts EXCEPT ![t] = BatchInsertPosts(@, batch, failAt)]
               /\ collected' = [collected EXCEPT ![t] = @ + inserted]
               /\ Log(t, InsertEv(batch, inserted))
        /\ Dirty(t, failAt = 0)
    /\ buffer' = [buffer EXCEPT ![t] = Drop(@, batch_size)]
    /\ Advance(t, IF Marker(t) # None THEN "wm" ELSE "next")
    /\ UNCHANGED <<pastVars, schedVars, callVars,
                   tableVars,
                   fetchVars,
                   remoteVars, configVars, rows, wm, cycleVars, isNew, totalPages,
                   newestPostId, lastCrawledPostId, lastPostId, crashes, emitted,
                   atStart, raised, runs, accepted, listed, prevClean, intr, resuming>>

\* the watermark update after a flush, lines 386-387 and 424-425
UpdateWm(t) ==
    /\ pc[t] = "wm"
    /\ \E ok \in BOOLEAN :
        /\ ok \/ CanFail
        /\ Charge(ok)
        /\ wm' = UpdateLastPostId(t, Marker(t), ok)
        /\ Log(t, Ev("update", Marker(t), IF ok /\ t \in rows THEN 1 ELSE 0))
        /\ Dirty(t, ok)
    /\ Advance(t, "next")
    /\ UNCHANGED <<pastVars, schedVars, callVars,
                   tableVars,
                   fetchVars,
                   remoteVars, configVars, rows, posts, cycleVars, isNew, totalPages,
                   buffer, newestPostId, lastCrawledPostId, lastPostId, collected,
                   crashes, emitted, atStart, raised, runs, accepted, listed, prevClean,
                   intr, resuming>>

\* `if posts_buffer:` after the loop, line 427
HasPendingAlways(buf) == TRUE

HasPending(buf) == buf # <<>>

\* the final flush, lines 427-430
FinalFlush(t) ==
    /\ pc[t] = "final"
    /\ IF HasPending(buffer[t])
       THEN \E failAt \in 0..NumStatements(buffer[t]) :
            /\ failAt = 0 \/ CanFail
            /\ Charge(failAt = 0)
            /\ LET inserted == BatchInserted(posts[t], buffer[t], failAt) IN
               /\ posts' = [posts EXCEPT ![t] = BatchInsertPosts(@, buffer[t], failAt)]
               /\ collected' = [collected EXCEPT ![t] = @ + inserted]
               /\ Log(t, InsertEv(buffer[t], inserted))
            /\ Dirty(t, failAt = 0)
            /\ pc' = [pc EXCEPT ![t] = IF Marker(t) # None THEN "finalwm" ELSE "ret"]
       ELSE /\ pc' = [pc EXCEPT ![t] = "ret"]
            /\ UNCHANGED <<posts, collected, trace, clean, faults>>
    /\ UNCHANGED <<pastVars, schedVars, callVars,
                   tableVars,
                   fetchVars,
                   remoteVars, configVars, rows, wm, cycleVars, isNew, totalPages, page,
                   buffer, newestPostId, lastCrawledPostId, lastPostId, crashes, emitted,
                   atStart, raised, runs, accepted, listed, prevClean, intr, resuming>>

\* the final watermark update, lines 432-434
FinalWm(t) ==
    /\ pc[t] = "finalwm"
    /\ \E ok \in BOOLEAN :
        /\ ok \/ CanFail
        /\ Charge(ok)
        /\ wm' = UpdateLastPostId(t, Marker(t), ok)
        /\ Log(t, Ev("update", Marker(t), IF ok /\ t \in rows THEN 1 ELSE 0))
        /\ Dirty(t, ok)
    /\ pc' = [pc EXCEPT ![t] = "ret"]
    /\ UNCHANGED <<pastVars, schedVars, callVars,
                   tableVars,
                   fetchVars,
                   remoteVars, configVars, rows, posts, cycleVars, isNew, totalPages,
                   page, buffer, newestPostId, lastCrawledPostId, lastPostId, collected,
                   crashes, emitted, atStart, raised, runs, accepted, listed, prevClean,
                   intr, resuming>>

\* the result dict of _crawl_single_thread: the try branch or the except branch
CrawlResultPartial(t, didRaise, count, new) ==
    [thread |-> t, posts_count |-> count, is_new |-> new]

CrawlResult(t, didRaise, count, new) ==
    IF didRaise
    THEN [thread |-> t, posts_count |-> 0, is_new |-> FALSE]
    ELSE [thread |-> t, posts_count |-> count, is_new |-> new]

\* an operation of the pipeline raises: the except branch of _crawl_single_thread
Raise(t) ==
    /\ pc[t] \in ActivePcs \ {"ret"}
    /\ CanFail
    /\ Charge(FALSE)
    /\ raised' = raised \cup {t}
    /\ Dirty(t, FALSE)
    /\ pc' = [pc EXCEPT ![t] = "ret"]
    /\ UNCHANGED <<pastVars, schedVars, callVars,
                   tableVars,
                   fetchVars,
                   remoteVars, configVars, storeVars, cycleVars, isNew, totalPages, page,
                   buffer, newestPostId, lastCrawledPostId, lastPostId, collected,
                   crashes, trace, emitted, atStart, runs, accepted, listed, prevClean,
                   intr, resuming>>

\* total_collected += thread_result["posts_count"], line 637
AggregateLast(total, res) == res.posts_count

Aggregate(total, res) == total + res.posts_count

\* the worker returns and as_completed hands the result to collect_today_threads,
\* lines 468-480 and 634-639
Finish(t) ==
    /\ pc[t] = "ret"
    /\ LET res == CrawlResult(t, t \in raised, collected[t], isNew[t]) IN
       /\ stats' = Append(stats, res)
       /\ totalCollected' = Aggregate(totalCollected, res)
    /\ pc' = [pc EXCEPT ![t] = "done"]
    /\ buffer' = [buffer EXCEPT ![t] = <<>>]
    /\ UNCHANGED <<pastVars, schedVars, callVars,
                   tableVars,
                   fetchVars,
                   remoteVars, configVars, storeVars, cycle, phase, lpage, queue, isNew,
                   totalPages, page, newestPostId, lastCrawledPostId, lastPostId,
                   collected, budgetVars, trace, emitted, atStart, clean, raised, runs,
                   accepted, listed, prevClean, intr, resuming>>

\* ---------------------------------------------------- collect_today_threads
\* the listing pages one call visits: range(1, max_pages + 1), until there is no next page
LastListingPage == Min(maxPagesArg, Len(listing))

ListingThreads == UNION {SeqToSet(listing[i]) : i \in 1..Len(listing)}

\* the filter loop, lines 591-610: the threads of one listing page that are accepted
ThreadsToCrawl(cands) ==
    SelectSeq(cands, LAMBDA t : t \notin linkNA
                               /\ IsThreadAfterStartDate(startDate[t], filterOn))

\* the futures the pool is given, lines 629-632
SubmittedOnePerWorker(acc) == Take(acc, max_thread_workers)

Submitted(acc) == acc

\* one listing page: extraction, date filter, submission to the pool (lines 576-632)
ListPage ==
    /\ phase = "list"
    /\ lpage <= LastListingPage
    /\ LET acc == ThreadsToCrawl(listing[lpage]) IN
       /\ listed' = listed \cup SeqToSet(listing[lpage])
       /\ accepted' = accepted \cup SeqToSet(acc)
       /\ IF acc = <<>>
          THEN /\ lpage' = lpage + 1
               /\ UNCHANGED <<phase, queue, pc>>
          ELSE /\ queue' = Submitted(acc)
               /\ pc' = [t \in Threads |->
                            IF t \in SeqToSet(Submitted(acc)) THEN "queued" ELSE pc[t]]
               /\ phase' = "pool"
               /\ lpage' = lpage
    /\ UNCHANGED <<pastVars, schedVars, callVars,
                   tableVars,
                   fetchVars,
                   remoteVars, configVars, storeVars, cycle, stats, totalCollected, isNew,
                   totalPages, page, buffer, newestPostId, lastCrawledPostId, lastPostId,
                   collected, budgetVars, trace, emitted, atStart, clean, raised, runs,
                   prevClean, intr, resuming>>

\* the pool of one listing page is drained (the with block ends), line 643-645
PoolDone ==
    /\ phase = "pool"
    /\ queue = <<>>
    /\ \A t \in Threads : pc[t] \in {"idle", "done"}
    /\ phase' = "list"
    /\ lpage' = lpage + 1
    /\ UNCHANGED <<pastVars, schedVars, callVars,
                   tableVars,
                   fetchVars,
                   remoteVars, configVars, storeVars, cycle, queue, stats, totalCollected,
                   runVars, budgetVars, histVars>>

\* collect_today_threads returns (total_collected, thread_stats), lines 647-662
EndCycle ==
    /\ phase = "list"
    /\ lpage > LastListingPage
    /\ phase' = "end"
    /\ UNCHANGED <<pastVars, schedVars, callVars,
                   tableVars,
                   fetchVars,
                   remoteVars, configVars, storeVars, cycle, lpage, queue, stats,
                   totalCollected, runVars, budgetVars, histVars>>

HasUpdate(tr) == \E i \in 1..Len(tr) : tr[i].op = "update" /\ tr[i].res = 1

\* the process is stopped while the pool runs: everything but the store is lost
Crash ==
    /\ phase = "pool"
    /\ Running # {}
    /\ crashes < MaxCrashes
    /\ crashes' = crashes + 1
    /\ phase' = "crashed"
    /\ queue' = <<>>
    /\ intr' = [t \in Threads |->
                  IF pc[t] \in ActivePcs \ {"ret"} /\ clean[t] /\ HasUpdate(trace[t])
                  THEN (IF isNew[t] THEN "fwd" ELSE "rev")
                  ELSE "no"]
    /\ pc' = [t \in Threads |-> IF pc[t] = "done" THEN "done" ELSE "idle"]
    /\ UNCHANGED <<pastVars, schedVars, callVars,
                   tableVars,
                   fetchVars,
                   remoteVars, configVars, storeVars, cycle, lpage, stats, totalCollected,
                   isNew, totalPages, page, buffer, newestPostId, lastCrawledPostId,
                   lastPostId, collected, faults, trace, emitted, atStart, clean, raised,
                   runs, accepted, listed, prevClean, resuming>>

\* the pages a run fetched in its loop without getting them
FailedPages(t) ==
    {trace[t][i].arg : i \in {j \in 1..Len(trace[t]) :
                                 trace[t][j].op = "fetch" /\ trace[t][j].res = 0}}

\* the next call of collect_today_threads (scheduler.py, an interval job, or a restart);
\* meanwhile one thread of the remote may have grown
NextCycle ==
    /\ phase \in {"end", "crashed"}
    /\ cycle < MaxCycles
    /\ cycle' = cycle + 1
    /\ phase' = "list"
    /\ lpage' = 1
    /\ queue' = <<>>
    /\ stats' = <<>>
    /\ totalCollected' = 0
    /\ \E t \in ListingThreads : \E n \in remoteN[t]..Min(remoteCap, MaxItems) :
        /\ remoteN' = [remoteN EXCEPT ![t] = n]
        /\ prevClean' = [x \in Threads |->
                           /\ phase = "end" /\ pc[x] = "done" /\ clean[x] /\ x \notin raised
                           /\ (x = t => n = remoteN[t])]
        /\ intr' = [intr EXCEPT ![t] = IF n = remoteN[t] THEN @ ELSE "no"]
        /\ skippedBefore' = [x \in Threads |->
                               IF /\ pc[x] = "done" /\ x \notin raised /\ isNew[x]
                                  /\ (x = t => n = remoteN[t])
                               THEN FailedPages(x)
                               ELSE {}]
    /\ pc' = [t \in Threads |-> "idle"]
    /\ isNew' = [t \in Threads |-> FALSE]
    /\ totalPages' = [t \in Threads |-> 0]
    /\ page' = [t \in Threads |-> 0]
    /\ buffer' = [t \in Threads |-> <<>>]
    /\ newestPostId' = [t \in Threads |-> None]
    /\ lastCrawledPostId' = [t \in Threads |-> None]
    /\ lastPostId' = [t \in Threads |-> None]
    /\ collected' = [t \in Threads |-> 0]
    /\ trace' = [t \in Threads |-> <<>>]
    /\ emitted' = [t \in Threads |-> <<>>]
    /\ atStart' = [t \in Threads |-> [row |-> FALSE, wm |-> None, posts |-> {}]]
    /\ clean' = [t \in Threads |-> TRUE]
    /\ raised' = {}
    /\ runs' = [t \in Threads |-> 0]
    /\ accepted' = {}
    /\ listed' = {}
    /\ resuming' = [t \in Threads |-> "no"]
    /\ UNCHANGED <<schedVars, callVars,
                   tableVars,
                   fetchVars,
                   emptyBody, startDate, listing, remoteCap, linkNA, configVars, storeVars,
                   budgetVars>>

\* --------------------------------------------------------------- _fetch_page
\* `if attempt < self.config.max_retries - 1`: the retry delay follows this attempt
SleepsAfterAlways(a) == TRUE

SleepsAfter(a) == a < max_retries - 1

pipelineVars == <<remoteVars, configVars, storeVars, cycleVars, runVars, budgetVars,
                  histVars>>

\* a caller calls _fetch_page(url)
FetchCall ==
    /\ fState \in {"idle", "returned"}
    /\ fCalls < MaxFetchCalls
    /\ fCalls' = fCalls + 1
    /\ fState' = "loop"
    /\ attempt' = 0
    /\ fResult' = "pending"
    /\ fLog' = <<>>
    /\ UNCHANGED <<pastVars, schedVars, callVars,
                   pipelineVars, tableVars, max_retries, fHist>>

\* one iteration of `for attempt in range(self.config.max_retries)`, lines 180-189
FetchAttempt ==
    /\ fState = "loop"
    /\ attempt < max_retries
    /\ \E ok \in BOOLEAN :
        IF ok
        THEN /\ fLog' = Append(fLog, Ev("get", attempt, 1))
             /\ fResult' = "soup"
             /\ fState' = "returned"
             /\ fHist' = Append(fHist, "soup")
             /\ attempt' = attempt
        ELSE /\ fLog' = Append(fLog, Ev("get", attempt, 0))
                          \o (IF SleepsAfter(attempt)
                              THEN <<Ev("sleep", retry_delay, 0)>> ELSE <<>>)
             /\ attempt' = attempt + 1
             /\ UNCHANGED <<fResult, fState, fHist>>
    /\ UNCHANGED <<pastVars, schedVars, callVars,
                   pipelineVars, tableVars, max_retries, fCalls>>

\* the range is exhausted: `return None`, lines 190-191
FetchGiveUp ==
    /\ fState = "loop"
    /\ attempt >= max_retries
    /\ fResult' = "None"
    /\ fState' = "returned"
    /\ fHist' = Append(fHist, "None")
    /\ UNCHANGED <<pastVars, schedVars, callVars,
                   pipelineVars, tableVars, max_retries, attempt, fLog, fCalls>>

\* ------------------------------------------- calls of Database on f319_post
\* a worker calls batch_insert_posts with a batch that may repeat ids
PostBatchInsert ==
    /\ \E ids \in BatchIds, c \in Contents, failAt \in 0..2 :
        /\ failAt <= NumStatements(ids)
        /\ LET rs == [i \in 1..Len(ids) |-> [id |-> ids[i], content |-> c]]
               r == DbBatchInsertPosts(f319_post, rs, failAt)
           IN  /\ f319_post' = r.table
               /\ dbRet' = Ret("batch", Len(rs), r.ret, r.failed)
    /\ UNCHANGED <<pastVars, schedVars, callVars,
                   pipelineVars, fetchVars, f319_list>>

\* a worker calls insert_f319_post
PostInsert ==
    /\ \E id \in PostIds, c \in Contents, ok \in BOOLEAN :
        LET r == DbInsertF319Post(f319_post, [id |-> id, content |-> c], ok)
        IN  /\ f319_post' = r.table
            /\ dbRet' = Ret("insert", id, r.ret, r.failed)
    /\ UNCHANGED <<pastVars, schedVars, callVars,
                   pipelineVars, fetchVars, f319_list>>

\* a worker calls post_exists
PostExists ==
    /\ \E id \in PostIds, ok \in BOOLEAN :
        dbRet' = Ret("exists", id, DbPostExists(f319_post, id, ok), ~ok)
    /\ UNCHANGED <<pastVars, schedVars, callVars,
                   pipelineVars, fetchVars, f319_post, f319_list>>

\* ------------------------------------------- calls of Database on f319_list
\* a worker calls insert_f319_list
ListUpsert ==
    /\ \E id \in ListIds, link \in Links, ok \in BOOLEAN :
        LET r == DbInsertF319List(f319_list, id, link, ok)
        IN  /\ f319_list' = r.table
            /\ dbRet' = Ret("upsert", id, r.ret, r.failed)
    /\ UNCHANGED <<pastVars, schedVars, callVars,
                   pipelineVars, fetchVars, f319_post>>

\* a worker calls update_last_post_id
ListUpdate ==
    /\ \E id \in ListIds, last \in PostIds, ok \in BOOLEAN :
        LET r == DbUpdateLastPostId(f319_list, id, last, ok)
        IN  /\ f319_list' = r.table
            /\ dbRet' = Ret("update", id, r.ret, r.failed)
    /\ UNCHANGED <<pastVars, schedVars, callVars,
                   pipelineVars, fetchVars, f319_post>>

\* a worker calls get_last_post_id
ListGet ==
    /\ \E id \in ListIds, ok \in BOOLEAN :
        dbRet' = Ret("get", id, DbGetLastPostId(f319_list, id, ok), ~ok)
    /\ UNCHANGED <<pastVars, schedVars, callVars,
                   pipelineVars, fetchVars, f319_post, f319_list>>

\* ------------------------------------------------------------ specification
\* no Database call is followed row by row
DbIdle ==
    /\ f319_post = <<>>
    /\ f319_list = <<>>
    /\ dbRet = Ret("none", 0, 0, FALSE)

\* ----------------------------------- calls of _collect_posts_from_page alone
\* a call of _collect_posts_from_page on a page of the remote, with some of its posts
\* empty, some stored, and a watermark or none
NoPosts == [posts |-> <<>>, old |-> 0, found |-> FALSE]

CollectArgs(soup, empty, last, stored) ==
    [soup |-> soup, empty |-> empty, last |-> last, stored |-> stored,
     done |-> FALSE, ret |-> NoPosts]

\* the call returns
CollectCall ==
    /\ ~collectCall.done
    /\ collectCall' = [collectCall EXCEPT
           !.done = TRUE,
           !.ret = CollectPostsFromPage(collectCall.soup, collectCall.empty,
                                        collectCall.last, collectCall.stored)]
    /\ UNCHANGED <<pipelineVars, fetchVars, tableVars, schedVars, pastVars>>

\* ------------------------------------------------------------ scheduler.py
\* the jobs the scheduler starts while it is followed
MaxJobs == 3

\* run_hybrid_crawler catches every Exception of the crawler and returns
HybridRaisesOnFailure(ok) == ~ok

HybridRaises(ok) == FALSE

\* what run_hybrid_crawler and run_full_crawler log at their end
JobOutcome(name, ok) == IF ok THEN name \o "_completed" ELSE name \o "_failed"

SchedDid(e) == [sched EXCEPT !.log = Append(@, e)]

\* run_sequential_crawlers is entered and calls run_hybrid_crawler
RunSequentialCrawlers ==
    /\ sched.pc = "idle"
    /\ sched.jobs < MaxJobs
    /\ sched' = [SchedDid("hybrid_start") EXCEPT !.pc = "hybrid", !.jobs = @ + 1]
    /\ UNCHANGED <<pipelineVars, fetchVars, tableVars, callVars, pastVars>>

\* run_hybrid_crawler: the crawler returns or raises; an exception that leaves
\* the wrapper ends run_sequential_crawlers in its own except clause
RunHybridCrawler ==
    /\ sched.pc = "hybrid"
    /\ \E ok \in BOOLEAN :
          sched' = [SchedDid(JobOutcome("hybrid", ok)) EXCEPT
                       !.pc = IF HybridRaises(ok) THEN "idle" ELSE "hybrid_done"]
    /\ UNCHANGED <<pipelineVars, fetchVars, tableVars, callVars, pastVars>>

\* time.sleep(delay_between_crawlers) of run_sequential_crawlers
SleepBetweenCrawlers ==
    /\ sched.pc = "hybrid_done"
    /\ sched' = [SchedDid("sleep") EXCEPT !.pc = "slept"]
    /\ UNCHANGED <<pipelineVars, fetchVars, tableVars, callVars, pastVars>>

\* run_sequential_crawlers calls run_full_crawler
StartFullCrawler ==
    /\ sched.pc = "slept"
    /\ sched' = [SchedDid("full_start") EXCEPT !.pc = "full"]
    /\ UNCHANGED <<pipelineVars, fetchVars, tableVars, callVars, pastVars>>

\* run_full_crawler: the crawler returns or raises, the wrapper returns, and
\* run_sequential_crawlers ends
RunFullCrawler ==
    /\ sched.pc = "full"
    /\ \E ok \in BOOLEAN :
          sched' = [SchedDid(JobOutcome("full", ok)) EXCEPT !.pc = "idle"]
    /\ UNCHANGED <<pipelineVars, fetchVars, tableVars, callVars, pastVars>>

\* _signal_handler: SIGINT or SIGTERM ends the process wherever it is
SignalHandler ==
    /\ sched.pc # "stopped"
    /\ sched' = [sched EXCEPT !.pc = "stopped"]
    /\ UNCHANGED <<pipelineVars, fetchVars, tableVars, callVars, pastVars>>

\* the scheduler is not followed
SchedIdle == sched = [pc |-> "idle", log |-> <<>>, jobs |-> 0]

\* no call of _collect_posts_from_page is followed on its own
CallIdle == collectCall = CollectArgs(Soup(0, 1), {}, None, {})

\* no call of _fetch_page is followed attempt by attempt
FetchIdle ==
    /\ fState = "idle"
    /\ attempt = 0
    /\ fResult = "pending"
    /\ fLog = <<>>
    /\ fCalls = 0
    /\ fHist = <<>>

InitCommon ==
    /\ rows = {}
    /\ wm = [t \in Threads |-> None]
    /\ posts = [t \in Threads |-> {}]
    /\ phase = "list"
    /\ lpage = 1
    /\ queue = <<>>
    /\ stats = <<>>
    /\ totalCollected = 0
    /\ pc = [t \in Threads |-> "idle"]
    /\ isNew = [t \in Threads |-> FALSE]
    /\ totalPages = [t \in Threads |-> 0]
    /\ page = [t \in Threads |-> 0]
    /\ buffer = [t \in Threads |-> <<>>]
    /\ newestPostId = [t \in Threads |-> None]
    /\ lastCrawledPostId = [t \in Threads |-> None]
    /\ lastPostId = [t \in Threads |-> None]
    /\ collected = [t \in Threads |-> 0]
    /\ crashes = 0
    /\ trace = [t \in Threads |-> <<>>]
    /\ emitted = [t \in Threads |-> <<>>]
    /\ atStart = [t \in Threads |-> [row |-> FALSE, wm |-> None, posts |-> {}]]
    /\ clean = [t \in Threads |-> TRUE]
    /\ raised = {}
    /\ runs = [t \in Threads |-> 0]
    /\ accepted = {}
    /\ listed = {}
    /\ prevClean = [t \in Threads |-> FALSE]
    /\ intr = [t \in Threads |-> "no"]
    /\ resuming = [t \in Threads |-> "no"]
    /\ skippedBefore = [t \in Threads |-> {}]

Date(fmt, day) == [fmt |-> fmt, day |-> day]

\* one thread with up to MaxItems posts, at most one of them with an empty body
Init ==
    /\ InitCommon
    /\ DbIdle
    /\ CallIdle
    /\ SchedIdle
    /\ FetchIdle /\ max_retries = MaxRetries
    /\ cycle = 1
    /\ faults = 0
    /\ listing = << <<"t1">> >>
    /\ linkNA = {}
    /\ filterOn = FALSE
    /\ maxPagesArg = 1
    /\ remoteCap = MaxItems
    /\ startDate = [t \in Threads |-> Date("d/m/Y, H:M", thread_start_date)]
    /\ \E n \in 1..MaxItems : remoteN = [t \in Threads |-> IF t = "t1" THEN n ELSE 1]
    /\ \E e \in {{}} \cup {{i} : i \in 1..MaxItems} :
          emptyBody = [t \in Threads |-> IF t = "t1" THEN e ELSE {}]

\* three threads (one of a full batch of posts, two of one post) on one or two listing
\* pages, with the date filter;
\* two calls of collect_today_threads and one fault
CycleInit ==
    /\ InitCommon
    /\ DbIdle
    /\ CallIdle
    /\ SchedIdle
    /\ FetchIdle /\ max_retries = MaxRetries
    /\ cycle = MaxCycles - 1
    /\ faults = MaxFaults - 1
    /\ \/ /\ listing = << <<"t1", "t2", "t3">> >>
          /\ linkNA = {}
          /\ maxPagesArg = 2
       \/ /\ listing = << <<"t1", "t2">>, <<"t3">> >>
          /\ linkNA = {"t2"}
          /\ maxPagesArg \in {1, 2}
    /\ filterOn \in BOOLEAN
    /\ remoteCap = 1
    /\ \E d \in {Date("d/m/Y, H:M", thread_start_date - 1), Date("d-m-Y", thread_start_date),
                 Date("d/m/Y", thread_start_date + 1), Date("NA", 0)} :
          startDate = [t \in Threads |->
                          IF t = "t1" THEN d ELSE Date("d/m/Y, H:M", thread_start_date)]
    /\ remoteN = [t \in Threads |-> IF t = "t2" THEN batch_size ELSE 1]
    /\ emptyBody = [t \in Threads |-> {}]

Next ==
    \/ ListPage
    \/ PoolDone
    \/ EndCycle
    \/ NextCycle
    \/ Crash
    \/ \E t \in Threads : Start(t)
    \/ \E t \in Threads : Probe(t)
    \/ \E t \in Threads : ForwardPage(t)
    \/ \E t \in Threads : ReversePage(t)
    \/ \E t \in Threads : Flush(t)
    \/ \E t \in Threads : UpdateWm(t)
    \/ \E t \in Threads : FinalFlush(t)
    \/ \E t \in Threads : FinalWm(t)
    \/ \E t \in Threads : Raise(t)
    \/ \E t \in Threads : Finish(t)

Spec == Init /\ [][Next]_vars

CycleSpec == CycleInit /\ [][Next]_vars

\* the next statement of the worker that runs the pipeline of t
WorkerStep(t) ==
    \/ Probe(t) \/ ForwardPage(t) \/ ReversePage(t) \/ Flush(t) \/ UpdateWm(t)
    \/ FinalFlush(t) \/ FinalWm(t) \/ Raise(t) \/ Finish(t)

\* a worker thread of the pool that is not stopped goes on to its next statement:
\* every call it makes returns (session.get has a timeout, the retries are counted)
WorkersRun == \A t \in Threads : WF_vars(WorkerStep(t))

\* one listed thread of one page or of two full pages, every post with a body; two
\* calls of collect_today_threads and two faults
LiveInit ==
    /\ InitCommon
    /\ DbIdle
    /\ CallIdle
    /\ SchedIdle
    /\ FetchIdle /\ max_retries = MaxRetries
    /\ cycle = MaxCycles - 1
    /\ faults = MaxFaults - 2
    /\ listing = << <<"t1">> >>
    /\ linkNA = {}
    /\ filterOn = FALSE
    /\ maxPagesArg = 1
    /\ remoteCap = MaxItems
    /\ startDate = [t \in Threads |-> Date("d/m/Y, H:M", thread_start_date)]
    /\ \E n \in {1, MaxItems} : remoteN = [t \in Threads |-> IF t = "t1" THEN n ELSE 1]
    /\ emptyBody = [t \in Threads |-> {}]

LiveSpec == LiveInit /\ [][Next]_vars /\ WorkersRun

\* _fetch_page on its own: one thread, nothing stored, max_retries from 0 to MaxRetries
FetchInit ==
    /\ InitCommon
    /\ DbIdle
    /\ CallIdle
    /\ SchedIdle
    /\ FetchIdle /\ max_retries \in 0..MaxRetries
    /\ cycle = 1
    /\ faults = 0
    /\ listing = << <<"t1">> >>
    /\ linkNA = {}
    /\ filterOn = FALSE
    /\ maxPagesArg = 1
    /\ remoteCap = 1
    /\ startDate = [t \in Threads |-> Date("d/m/Y, H:M", thread_start_date)]
    /\ remoteN = [t \in Threads |-> 1]
    /\ emptyBody = [t \in Threads |-> {}]

FetchNext ==
    \/ FetchCall
    \/ FetchAttempt
    \/ FetchGiveUp

FetchSpec == FetchInit /\ [][FetchNext]_vars

\* a call of _fetch_page goes on: session.get returns or times out
FetchLiveSpec == FetchSpec /\ WF_vars(FetchAttempt \/ FetchGiveUp)

\* the crawler at rest: one listed thread, nothing fetched
PipelineIdle ==
    /\ InitCommon
    /\ FetchIdle /\ max_retries = MaxRetries
    /\ cycle = 1
    /\ faults = 0
    /\ listing = << <<"t1">> >>
    /\ linkNA = {}
    /\ filterOn = FALSE
    /\ maxPagesArg = 1
    /\ remoteCap = 1
    /\ startDate = [t \in Threads |-> Date("d/m/Y, H:M", thread_start_date)]
    /\ remoteN = [t \in Threads |-> 1]
    /\ emptyBody = [t \in Threads |-> {}]

\* the calls of _collect_posts_from_page on their own
CollectInit ==
    /\ PipelineIdle /\ DbIdle /\ SchedIdle
    /\ \E n \in 1..MaxItems :
       \E p \in 1..RemotePages(n) :
       \E empty \in SUBSET SeqToSet(PageItems(n, p)) :
       \E stored \in SUBSET SeqToSet(PageItems(n, p)) :
       \E last \in {None} \cup 1..MaxItems :
          collectCall = CollectArgs(Soup(n, p), empty, last, stored)

CollectNext == CollectCall

CollectSpec == CollectInit /\ [][CollectNext]_vars

\* the calls of Database on f319_post on their own, from the empty tables
PostDbInit == PipelineIdle /\ DbIdle /\ CallIdle /\ SchedIdle

PostDbNext ==
    \/ PostBatchInsert
    \/ PostInsert
    \/ PostExists

PostDbSpec == PostDbInit /\ [][PostDbNext]_vars

\* the calls of Database on f319_list on their own, from the empty tables
ListDbInit == PipelineIdle /\ DbIdle /\ CallIdle /\ SchedIdle

ListDbNext ==
    \/ ListUpsert
    \/ ListUpdate
    \/ ListGet

ListDbSpec == ListDbInit /\ [][ListDbNext]_vars

\* the scheduler on its own
SchedInit == PipelineIdle /\ DbIdle /\ CallIdle /\ SchedIdle

SchedNext ==
    \/ RunSequentialCrawlers
    \/ RunHybridCrawler
    \/ SleepBetweenCrawlers
    \/ StartFullCrawler
    \/ RunFullCrawler
    \/ SignalHandler

SchedSpec == SchedInit /\ [][SchedNext]_vars

\* ------------------------------------------------------------------ claims
Ops(t, op) == {i \in 1..Len(trace[t]) : trace[t][i].op = op}

\* a run that returned from collect_thread_posts without a fault or an exception
CleanReturn(t) == pc[t] \in {"ret", "done"} /\ clean[t] /\ t \notin raised

\* C1: every update_last_post_id call of a run directly follows a batch_insert_posts
\* call of the same run (no page fetch in between), so no watermark update precedes
\* the first flush.
C1_UpdateFollowsFlush ==
    \A t \in Threads : \A i \in Ops(t, "update") :
        i > 1 /\ trace[t][i - 1].op = "insert"

\* a run that updated the watermark after an intermediate flush and again after the
\* final flush
C1_Witness ==
    \E t \in Threads : CleanReturn(t) /\ Cardinality(Ops(t, "update")) >= 2

\* C2: a stored watermark is the id of a post stored for that thread.
C2_WatermarkPersisted ==
    \A t \in Threads : wm[t] # None => wm[t] \in posts[t]

\* C3: after a run that was interrupted after at least one flush and watermark update,
\* the next run (uninterrupted, no fault, remote unchanged) leaves every post of the
\* thread with a non-empty body in the store.
C3_Resumable ==
    \A t \in Threads :
        (CleanReturn(t) /\ resuming[t] # "no" /\ faults = 0) => posts[t] = NonEmpty(t)

\* C4: when a cycle ran to its end with a clean run of a thread, the run of the next
\* cycle against the unchanged remote (itself without a fault) inserts nothing: every
\* bulk insert reports 0 rows, the posts of the thread are the same set as at its
\* start, and the total of a cycle of such runs is 0.
C4_SecondCycleInsertsNothing ==
    /\ \A t \in Threads :
          (prevClean[t] /\ clean[t]) =>
              /\ collected[t] = 0
              /\ runs[t] >= 1 => posts[t] = atStart[t].posts
              /\ \A i \in Ops(t, "insert") : trace[t][i].res = 0
    /\ (\A t \in ListingThreads : prevClean[t] /\ clean[t]) => totalCollected = 0

\* the second of two clean cycles has ended; the thread had posts stored before it
C4_Witness ==
    \E t \in Threads :
        /\ prevClean[t] /\ CleanReturn(t) /\ phase = "end" /\ faults = 0
        /\ atStart[t].posts # {} /\ Ops(t, "fetch") # {}

\* the premise of C5: a reverse run with a stored watermark, every newer post with a
\* non-empty body and not yet stored
BoundaryCase(t) ==
    /\ ~isNew[t] /\ lastPostId[t] # None
    /\ \A i \in (lastPostId[t] + 1)..remoteN[t] :
          i \notin emptyBody[t] /\ i \notin atStart[t].posts

\* C5: a reverse run (without a fault) of a thread with watermark W, every newer post
\* non-empty and not stored, collects exactly the posts newer than W, each once, and
\* fetches no traversal page below the page that holds W.
C5_BoundaryCorrect ==
    \A t \in Threads :
        (CleanReturn(t) /\ BoundaryCase(t)) =>
            /\ SeqToSet(emitted[t]) = (lastPostId[t] + 1)..remoteN[t]
            /\ Len(emitted[t]) = remoteN[t] - lastPostId[t]
            /\ \A i \in Ops(t, "fetch") : trace[t][i].arg >= PageOf(lastPostId[t])

\* the watermark is on the second page and newer posts follow it
C5_Witness ==
    \E t \in Threads :
        /\ CleanReturn(t) /\ BoundaryCase(t) /\ faults = 0
        /\ lastPostId[t] < remoteN[t] /\ PageOf(lastPostId[t]) >= 2

\* the traversal pages a run fetched (or tried to fetch), in order
FetchPages(t) ==
    LET f == SelectSeq(trace[t], LAMBDA e : e.op = "fetch")
    IN  [i \in 1..Len(f) |-> f[i].arg]

Ascending(s) == \A i \in 1..(Len(s) - 1) : s[i + 1] = s[i] + 1
Descending(s) == \A i \in 1..(Len(s) - 1) : s[i + 1] = s[i] - 1

ForwardFromFirst(t) == FetchPages(t)[1] = 1 /\ Ascending(FetchPages(t))
ReverseFromLast(t) ==
    FetchPages(t)[1] = RemotePages(remoteN[t]) /\ Descending(FetchPages(t))

\* C6 as amended: a thread with no row in f319_list when its run starts is traversed
\* forward from page 1, a thread with a row is traversed in reverse from the last
\* page, whether or not a watermark is stored.
C6_DirectionByRow ==
    \A t \in Threads :
        FetchPages(t) # <<>> =>
            IF atStart[t].row THEN ReverseFromLast(t) ELSE ForwardFromFirst(t)

\* a thread of two pages with a row and no watermark, traversed in reverse
C6_Witness ==
    \E t \in Threads :
        /\ FetchPages(t) # <<>> /\ atStart[t].row /\ atStart[t].wm = None
        /\ RemotePages(remoteN[t]) >= 2 /\ CleanReturn(t)

\* C6 as stated: the direction follows the stored watermark, so a thread with a row
\* and no watermark is traversed forward.
C6_DirectionByWatermark ==
    \A t \in Threads :
        FetchPages(t) # <<>> =>
            IF atStart[t].wm # None THEN ReverseFromLast(t) ELSE ForwardFromFirst(t)

\* the sizes of the bulk inserts of a run, in order
InsertSizes(t) ==
    LET f == SelectSeq(trace[t], LAMBDA e : e.op = "insert")
    IN  [i \in 1..Len(f) |-> f[i].arg]

\* floor(n / B) batches of B, then one of n mod B when that is not 0
ExpectedSizes(n) ==
    [i \in 1..((n \div batch_size) + (IF n % batch_size > 0 THEN 1 ELSE 0)) |->
        IF i <= n \div batch_size THEN batch_size ELSE n % batch_size]

\* C7: a run with n new posts does floor(n / B) bulk inserts of B posts and, when
\* n mod B > 0, a final one of n mod B posts, each followed by a watermark update.
C7_BatchSizes ==
    \A t \in Threads :
        (CleanReturn(t) /\ faults = 0 /\ crashes = 0) =>
            /\ InsertSizes(t) = ExpectedSizes(Len(emitted[t]))
            /\ \A i \in Ops(t, "insert") :
                  i < Len(trace[t]) /\ trace[t][i + 1].op = "update"

\* the creation date of a listed thread, as _parse_thread_date reads it
Created(t) == ParseThreadDate(startDate[t])

\* a listed thread the date filter of this cycle rejects
BeforeCutoff(t) == filterOn /\ Created(t) # None /\ Created(t) < thread_start_date

\* C8: with the date filter on, a listed thread created before the cutoff is not
\* submitted and nothing is written for it (no row, no post, no watermark); a listed
\* thread with a valid link is submitted when it was created at or after the cutoff,
\* when its date cannot be parsed, and whenever the filter is off.
C8_DateFilter ==
    \A t \in listed :
        /\ BeforeCutoff(t) =>
              /\ t \notin accepted /\ pc[t] = "idle" /\ runs[t] = 0 /\ trace[t] = <<>>
              /\ t \notin rows /\ posts[t] = {} /\ wm[t] = None
        /\ (t \notin linkNA /\ ~BeforeCutoff(t)) =>
              /\ t \in accepted
              /\ phase # "crashed" => pc[t] # "idle"
              /\ phase \in {"list", "end"} => runs[t] = 1

\* a cycle with the filter on has ended: one thread was rejected, its siblings on the
\* same listing page were crawled and have posts stored
C8_Witness ==
    /\ phase = "end" /\ filterOn
    /\ \E t \in listed : BeforeCutoff(t)
    /\ \E t \in listed : Created(t) = thread_start_date /\ runs[t] = 1 /\ posts[t] # {}

\* the probe (the first page fetch of collect_thread_posts) of the run failed
ProbeFailed(t) == \E i \in Ops(t, "probe") : trace[t][i].res = 0

\* the entries of thread_stats that belong to a thread
StatsOf(t) == {i \in 1..Len(stats) : stats[i].thread = t}

\* what a run without a fault leaves in the store: a thread with nothing stored has
\* every post with a non-empty body and the newest of them as watermark; a thread that
\* a clean run of the previous cycle synchronised keeps what it had
StoreAsAlone(t) ==
    /\ (~atStart[t].row /\ atStart[t].posts = {}) =>
          (posts[t] = NonEmpty(t) /\ wm[t] = MaxOf(NonEmpty(t)))
    /\ prevClean[t] => (posts[t] = atStart[t].posts /\ wm[t] = atStart[t].wm)

\* C9: a thread whose first fetch fails or whose pipeline raises gets a result entry
\* with posts_count 0; every run that returned has delivered its entry (nothing
\* propagates to collect_today_threads, which goes on to its end); and at the end of
\* the cycle every other accepted thread has run, and a run without a fault of its own
\* has stored what it stores when no sibling fails.
C9_FaultIsolation ==
    /\ \A i \in 1..Len(stats) :
          (stats[i].thread \in raised \/ ProbeFailed(stats[i].thread)) =>
              stats[i].posts_count = 0
    /\ \A t \in Threads : pc[t] = "done" => StatsOf(t) # {}
    /\ phase = "end" =>
          \A s \in accepted :
              /\ pc[s] = "done"
              /\ CleanReturn(s) => StoreAsAlone(s)

\* the cycle has ended; one thread raised after a flush had stored posts, a sibling
\* ran without a fault and its posts are stored
C9_Witness ==
    /\ phase = "end"
    /\ \E t \in raised : \E s \in accepted \ {t} :
          /\ collected[t] > 0 /\ StatsOf(t) # {}
          /\ CleanReturn(s) /\ posts[s] # {} /\ StoreAsAlone(s)

\* C10: in one cycle no thread is run twice and none has two result entries; when
\* the pool of a listing page is drained every accepted thread has run once and has
\* one entry, in whatever order the workers finished.
C10_ExactlyOnce ==
    /\ \A t \in Threads : runs[t] <= 1 /\ Cardinality(StatsOf(t)) <= 1
    /\ phase \in {"list", "end"} =>
          /\ \A t \in accepted : runs[t] = 1 /\ Cardinality(StatsOf(t)) = 1
          /\ Len(stats) = Cardinality(accepted)

\* three threads were accepted on one listing page and the second one submitted
\* delivered its result first
C10_Witness ==
    /\ phase = "end" /\ Cardinality(accepted) = 3 /\ Len(stats) = 3
    /\ stats[1].thread = "t2" /\ stats[3].thread = "t1"

\* C11: at every moment at most max_thread_workers pipelines are executing; a
\* submitted thread leaves the queue only by starting its pipeline, and only while
\* fewer than max_thread_workers pipelines are executing; a pipeline that has started
\* stays with its worker until it has delivered its result (it is never queued again
\* or started a second time), unless the process is stopped.
C11_WorkerCap ==
    /\ [](Cardinality(Running) <= max_thread_workers)
    /\ [][\A t \in Threads :
            /\ (pc[t] = "queued" /\ pc'[t] # "queued" /\ phase' # "crashed") =>
                  (pc'[t] = "probe" /\ Cardinality(Running) < max_thread_workers)
            /\ (pc[t] \in ActivePcs /\ phase' # "crashed") =>
                  (pc'[t] \in ActivePcs \cup {"done"} /\ runs'[t] = runs[t])]_vars

\* three threads were submitted to two workers: the third runs, after one of the
\* first two has finished, while the other is still running
C11_Witness ==
    /\ Cardinality(accepted) = 3 /\ Cardinality(Running) = max_thread_workers
    /\ pc["t3"] \in ActivePcs
    /\ \E t \in {"t1", "t2"} : pc[t] = "done"

\* the session.get calls of the current call of _fetch_page
Gets == {i \in 1..Len(fLog) : fLog[i].op = "get"}

\* C12: one call of _fetch_page makes at most max_retries attempts; a successful
\* attempt is the last thing the call does and it returns the page; it returns None
\* only after exactly max_retries attempts that all failed; every attempt but the
\* first directly follows one sleep of retry_delay, every sleep directly follows a
\* failed attempt, and the call does not end with a sleep.
C12_RetryPolicy ==
    /\ Cardinality(Gets) <= max_retries
    /\ \A i \in Gets : fLog[i].res = 1 => (i = Len(fLog) /\ fResult = "soup")
    /\ fResult = "soup" => (fLog # <<>> /\ fLog[Len(fLog)] = Ev("get", attempt, 1))
    /\ fResult = "None" =>
          /\ Cardinality(Gets) = max_retries
          /\ \A i \in Gets : fLog[i].res = 0
    /\ \A i \in Gets : fLog[i].arg > 0 => (i > 1 /\ fLog[i - 1] = Ev("sleep", retry_delay, 0))
    /\ \A i \in 1..Len(fLog) :
          fLog[i].op = "sleep" => (i > 1 /\ fLog[i - 1].op = "get" /\ fLog[i - 1].res = 0)
    /\ fState = "returned" => (fLog = <<>> \/ fLog[Len(fLog)].op = "get")

\* a call that gave up after max_retries = 3 failed attempts and two sleeps, after
\* a call that succeeded at its second attempt
C12_Witness ==
    /\ max_retries = 3 /\ fState = "returned" /\ fResult = "None"
    /\ Len(fLog) = 5
    /\ fHist = <<"soup", "None">>

\* the run of t went through collect_thread_posts and returned without an exception
Returned(t) == pc[t] \in {"ret", "done"} /\ t \notin raised /\ runs[t] >= 1

\* C13: a fetch that fails all its attempts, the first fetch of the run included,
\* does not end the traversal: a forward run fetches every page from 1 to the last,
\* a reverse run fetches from the last page down to the page of the watermark or to
\* page 1, and never ends on a failed fetch of a page above page 1.
C13_FetchFailureSkipsPage ==
    \A t \in Threads :
        Returned(t) =>
            /\ FetchPages(t) # <<>>
            /\ isNew[t] =>
                  FetchPages(t) = [i \in 1..RemotePages(remoteN[t]) |-> i]
            /\ ~isNew[t] =>
                  /\ ReverseFromLast(t)
                  /\ LET f == SelectSeq(trace[t], LAMBDA e : e.op = "fetch")
                     IN  f[Len(f)].arg = 1 \/ f[Len(f)].res = 1

\* C14: after any sequence of single and bulk inserts, by any workers, with ids
\* repeated in a batch or already stored, f319_post holds at most one row per id; an
\* insert leaves every stored row as it was; and a single insert of a stored id that
\* no store failure hits changes nothing and returns False.
C14_OneRowPerId ==
    /\ [](\A i, j \in 1..Len(f319_post) :
             f319_post[i].id = f319_post[j].id => i = j)
    /\ [][/\ Len(f319_post') >= Len(f319_post)
          /\ SubSeq(f319_post', 1, Len(f319_post)) = f319_post
          /\ (dbRet'.op = "insert" /\ ~dbRet'.failed /\ dbRet'.id \in IdsOf(f319_post)) =>
                (dbRet'.val = FALSE /\ f319_post' = f319_post)]_vars

\* a bulk insert over a stored row added nothing and did not fail; the stored row of
\* id 1 still has the content it was first inserted with while another id has the
\* other content
C14_Witness ==
    /\ dbRet.op = "batch" /\ dbRet.id > execute_values_page_size
    /\ dbRet.val = 0 /\ ~dbRet.failed
    /\ \E i, j \in 1..Len(f319_post) :
          /\ f319_post[i] = [id |-> 1, content |-> "a"]
          /\ f319_post[j].content = "b"

\* the posts a run has added to the store so far
Growth(t) == Cardinality(posts[t]) - Cardinality(atStart[t].posts)

\* C15: the value a bulk insert returns is the number of rows it added, so the
\* posts_count collect_thread_posts returns (the sum of these values) is the number
\* of posts the run added to the store; stated for runs that no failure hit.
C15_CountIsGrowth ==
    \A t \in Threads :
        (CleanReturn(t) /\ faults = 0 /\ crashes = 0) => collected[t] = Growth(t)

\* C16: insert_f319_list for an id that is stored leaves the row, its watermark
\* included, as it was and returns False; a row that a call adds has no watermark;
\* and no call but update_last_post_id changes a stored row.
C16_UpsertKeepsWatermark ==
    [][/\ Len(f319_list') >= Len(f319_list)
       /\ \A i \in (Len(f319_list) + 1)..Len(f319_list') :
             f319_list'[i].last_post_id = None
       /\ dbRet'.op # "update" => SubSeq(f319_list', 1, Len(f319_list)) = f319_list
       /\ (dbRet'.op = "upsert" /\ dbRet'.id \in IdsOf(f319_list)) =>
             (dbRet'.val = FALSE /\ f319_list' = f319_list)]_vars

\* insert_f319_list was called for a thread whose row has a watermark and returned
\* False without a store failure; the watermark is still there
C16_Witness ==
    /\ dbRet.op = "upsert" /\ dbRet.val = FALSE /\ ~dbRet.failed
    /\ \E i \in 1..Len(f319_list) :
          f319_list[i].id = dbRet.id /\ f319_list[i].last_post_id # None

\* C17: the first call of every pipeline is the upsert of the thread, so it precedes
\* the first fetch and every bulk insert of the run; no later call of the run is an
\* upsert, and when the upsert added the row the row is there while the run fetches
\* and inserts.
C17_UpsertFirst ==
    \A t \in Threads :
        trace[t] # <<>> =>
            /\ trace[t][1].op = "upsert"
            /\ Ops(t, "upsert") = {1}
            /\ trace[t][1].res = 1 => t \in rows

\* a run of a new thread that fetched pages and inserted posts after its upsert
C17_Witness ==
    \E t \in Threads :
        /\ trace[t] # <<>> /\ trace[t][1] = Ev("upsert", 0, 1)
        /\ Ops(t, "fetch") # {} /\ Ops(t, "insert") # {}
        /\ posts[t] # {}

\* the value by which each call of Database reports a failure
FailureValue(op) ==
    CASE op = "batch" -> 0
      [] op = "get" -> None
      [] OTHER -> FALSE

\* C18: a call of Database whose statement raises leaves both tables as they were
\* and returns the failure value of its kind: batch_insert_posts 0,
\* update_last_post_id, insert_f319_list and post_exists False, get_last_post_id None.
C18_FailureIsNoOp ==
    [][dbRet'.failed =>
          /\ f319_post' = f319_post
          /\ f319_list' = f319_list
          /\ dbRet'.val = FailureValue(dbRet'.op)]_vars

\* the claim of C18 without the calls of batch_insert_posts that send more rows
\* than one statement of execute_values holds
C18_SingleStatementFailureIsNoOp ==
    [][(dbRet'.failed /\ ~(dbRet'.op = "batch" /\ dbRet'.id > execute_values_page_size)) =>
          /\ f319_post' = f319_post
          /\ f319_list' = f319_list
          /\ dbRet'.val = FailureValue(dbRet'.op)]_vars

\* the posts the bulk inserts of a call sequence were given, in order
RECURSIVE Passed(_)
Passed(tr) ==
    IF tr = <<>> THEN <<>>
    ELSE (IF Head(tr).op = "insert" THEN Head(tr).items ELSE <<>>) \o Passed(Tail(tr))

\* C19: at every point of a run the posts emitted so far are the posts already
\* passed to batch_insert_posts followed by the posts still to pass, in the order
\* of emission and without repetition; a flush inside a loop passes exactly
\* batch_size posts; and when collect_thread_posts returns after its first fetch
\* succeeded, however the loop ended, every emitted post has been passed exactly
\* once and every bulk insert, the final one included, is directly followed by one
\* update of the watermark and no second one.
C19_BufferDrained ==
    \A t \in Threads :
        /\ pc[t] \in {"page", "flush", "wm", "final"} =>
              emitted[t] = Passed(trace[t]) \o buffer[t]
        /\ \A i \in 1..Len(emitted[t]), j \in 1..Len(emitted[t]) :
              emitted[t][i] = emitted[t][j] => i = j
        /\ \A i \in Ops(t, "insert") :
              /\ trace[t][i].items # <<>>
              /\ Len(trace[t][i].items) = batch_size
                 \/ /\ pc[t] \notin {"page", "flush", "wm", "final"}
                    /\ \A j \in Ops(t, "insert") : j <= i
        /\ (Returned(t) /\ ~ProbeFailed(t)) =>
              /\ emitted[t] = Passed(trace[t])
              /\ \A i \in Ops(t, "insert") :
                    /\ i < Len(trace[t])
                    /\ trace[t][i + 1].op = "update"
                    /\ i + 2 <= Len(trace[t]) => trace[t][i + 2].op # "update"

\* a run that returned after a flush of batch_size posts inside the loop and a
\* final flush of a smaller remainder
C19_Witness ==
    \E t \in Threads :
        /\ Returned(t) /\ ~ProbeFailed(t)
        /\ Len(emitted[t]) > batch_size
        /\ Cardinality(Ops(t, "insert")) = 2
        /\ \E i \in Ops(t, "insert") : Len(trace[t][i].items) < batch_size
        /\ trace[t][Len(trace[t])].op = "update"

\* C20: when a run of a thread has returned and no fetch and no call of the store
\* failed in it, the stored watermark of the thread is the newest of the posts
\* stored for the thread.
C20_WatermarkIsNewest ==
    \A t \in Threads :
        (CleanReturn(t) /\ posts[t] # {}) => wm[t] = MaxOf(posts[t])

\* the claim of C20 for behaviours in which no fetch, no call of the store and no
\* process ever failed
C20_NeverAFailure ==
    \A t \in Threads :
        (CleanReturn(t) /\ posts[t] # {} /\ faults = 0 /\ crashes = 0) =>
            wm[t] = MaxOf(posts[t])

\* the last call of the run of t is an update of the watermark in forward mode
ForwardUpdate(t) ==
    /\ isNew[t] /\ trace[t] # <<>> /\ emitted[t] # <<>>
    /\ trace[t][Len(trace[t])].op = "update"

\* the first post the run appended from the page of the post it appended last
FirstOfLastPage(em) ==
    em[CHOOSE i \in 1..Len(em) :
          /\ PageOf(em[i]) = PageOf(em[Len(em)])
          /\ \A j \in 1..(i - 1) : PageOf(em[j]) # PageOf(em[Len(em)])]

\* C21 as stated: in forward mode every update of the watermark that follows a
\* flush writes the id of the post appended to the buffer last before that flush.
C21_WritesLastAppended ==
    \A t \in Threads :
        ForwardUpdate(t) =>
            trace[t][Len(trace[t])].arg = emitted[t][Len(emitted[t])]

\* C21 amended: in forward mode every update of the watermark that follows a flush
\* writes the id of the first post appended from the most recent page that had new
\* posts, which is the newest new post of that page.
C21_WritesFirstOfLastPage ==
    \A t \in Threads :
        ForwardUpdate(t) =>
            /\ trace[t][Len(trace[t])].arg = FirstOfLastPage(emitted[t])
            /\ trace[t][Len(trace[t])].arg = MaxOf(SeqToSet(emitted[t]))

\* a forward run whose update after a flush inside the loop wrote a post that was
\* not the one appended last
C21_Witness ==
    \E t \in Threads :
        /\ ForwardUpdate(t) /\ pc[t] \in {"page", "final"}
        /\ trace[t][Len(trace[t]) - 1].op = "insert"
        /\ trace[t][Len(trace[t])].arg # emitted[t][Len(emitted[t])]
        /\ trace[t][Len(trace[t])].res = 1

\* the updates of the watermark the run of t has made
Updates(t) == Ops(t, "update")

\* C22: in reverse mode every update of the watermark of one run, after a flush
\* inside the loop or after the final flush, writes the same id: the first post the
\* run collected, which is the newest post it collected, whatever pages are still
\* to visit.
C22_ReverseWritesNewest ==
    \A t \in Threads :
        (~isNew[t] /\ Updates(t) # {}) =>
            /\ emitted[t] # <<>>
            /\ \A i \in Updates(t) :
                  /\ trace[t][i].arg = emitted[t][1]
                  /\ trace[t][i].arg = MaxOf(SeqToSet(emitted[t]))

\* a reverse run that updated the watermark after a flush with an older page still
\* to visit, collected on that page, and updated it again after the final flush
C22_Witness ==
    \E t \in Threads :
        /\ ~isNew[t] /\ pc[t] = "ret"
        /\ Cardinality(Updates(t)) = 2
        /\ \E i \in Updates(t), j \in Ops(t, "fetch") :
              i < j /\ trace[t][j].arg < totalPages[t] /\ trace[t][j].res = 1
        /\ Len(emitted[t]) > batch_size

\* C23: in forward mode the posts of a first-seen thread are appended to the buffer
\* in the order of the remote: a post of an earlier page, or of an earlier position
\* on the same page, is appended before a later one.
C23_ForwardChronological ==
    \A t \in Threads :
        isNew[t] =>
            \A i \in 1..Len(emitted[t]), j \in 1..Len(emitted[t]) :
                i < j => emitted[t][i] < emitted[t][j]

\* the part of C23 that is about pages: in forward mode a post of an earlier page is
\* appended before a post of a later page, and the posts of one page are appended
\* from the last position to the first
C23_ForwardByPageNewestFirst ==
    \A t \in Threads :
        isNew[t] =>
            \A i \in 1..Len(emitted[t]), j \in 1..Len(emitted[t]) :
                i < j =>
                    /\ PageOf(emitted[t][i]) <= PageOf(emitted[t][j])
                    /\ PageOf(emitted[t][i]) = PageOf(emitted[t][j]) =>
                          emitted[t][i] > emitted[t][j]

\* C24: the pages a run requests after its first fetch are, in forward mode, 1, 2,
\* ... and, in reverse mode, N, N-1, ..., one after the other without a gap or a
\* repetition and never beyond N or below 1, where N is the page count the first
\* fetch of the run showed (1 for a thread without page navigation).
C24_PagesInDirection ==
    \A t \in Threads :
        LET N == RemotePages(remoteN[t])
            fp == FetchPages(t)
        IN  /\ Len(fp) <= N
            /\ fp # <<>> => totalPages[t] = N
            /\ \A i \in 1..Len(fp) :
                  fp[i] = IF isNew[t] THEN i ELSE N + 1 - i

\* a reverse run over a thread of two pages that requested page 2 and then page 1
C24_Witness ==
    \E t \in Threads :
        /\ ~isNew[t] /\ pc[t] = "ret" /\ t \notin raised
        /\ FetchPages(t) = <<2, 1>>
        /\ totalPages[t] = 2

\* the run of t met its watermark on the page it fetched last: the fetch succeeded
\* and the page holds the post of that id with a body
MetWatermark(t) ==
    LET fp == FetchPages(t)
        f == SelectSeq(trace[t], LAMBDA e : e.op = "fetch")
    IN  /\ fp # <<>> /\ f[Len(f)].res = 1
        /\ lastPostId[t] # None
        /\ lastPostId[t] \in NonEmpty(t)
        /\ PageOf(lastPostId[t]) = fp[Len(fp)]

Walked == [i \in 1..Len(collectCall.soup.items) |->
              collectCall.soup.items[Len(collectCall.soup.items) + 1 - i]]

\* the post at position i of the walk has a body
HasBody(i) == Walked[i] \notin collectCall.empty

\* the positions of the walk that hold the watermark post, with a body
BoundaryAt ==
    {i \in 1..Len(Walked) :
        HasBody(i) /\ collectCall.last # None /\ Walked[i] = collectCall.last}

\* the positions the walk reaches: those before the first boundary position
Reached == {i \in 1..Len(Walked) : \A b \in BoundaryAt : i < b}

\* position i is reached and holds a new post: with a body and not stored
IsNewAt(i) == i \in Reached /\ HasBody(i) /\ Walked[i] \notin collectCall.stored

\* position i is reached and holds a duplicate: with a body and stored
IsOldAt(i) == i \in Reached /\ HasBody(i) /\ Walked[i] \in collectCall.stored

\* C26: _collect_posts_from_page walks the page from its last post to its first and
\* returns, in that order, exactly the posts before the watermark post that have a
\* body and are not stored; a post without a body is neither returned nor counted;
\* old_posts_count is the number of stored posts met since the last new one; and
\* found_last_post is true exactly when a post with a body and the id of the given
\* watermark was met.
C26_CollectContract ==
    LET r == collectCall.ret IN
    collectCall.done =>
    /\ r.posts = SelectSeq(Walked, LAMBDA id :
                    \E i \in 1..Len(Walked) : Walked[i] = id /\ IsNewAt(i))
    /\ r.old = Cardinality({i \in 1..Len(Walked) :
                    IsOldAt(i) /\ \A j \in 1..Len(Walked) : IsNewAt(j) => j < i})
    /\ r.found = (BoundaryAt # {})
    /\ \A k \in 1..Len(r.posts) : r.posts[k] \notin collectCall.empty

\* a call on a page of three posts: the newest is new, the middle one has no body,
\* the oldest is the watermark; one post returned, boundary reached
C26_Witness ==
    /\ collectCall.done
    /\ Len(collectCall.soup.items) = 3
    /\ collectCall.last = collectCall.soup.items[1]
    /\ collectCall.empty = {collectCall.soup.items[2]}
    /\ collectCall.stored = {collectCall.soup.items[1]}
    /\ collectCall.ret = [posts |-> <<collectCall.soup.items[3]>>, old |-> 0,
                          found |-> TRUE]

\* the fetches of the run of t: the first fetch and the fetches of the loops
Fetches(t) == Ops(t, "probe") \cup Ops(t, "fetch")

\* C27: in a run every fetch that returned a page is directly followed by one sleep
\* of delay_between_requests, before anything else and so before the next fetch; a
\* fetch that failed all its attempts is followed by no such sleep; and the run
\* sleeps nowhere else.
C27_DelayAfterSuccess ==
    \A t \in Threads :
        /\ \A i \in Fetches(t) :
              IF trace[t][i].res = 1
              THEN /\ i < Len(trace[t])
                   /\ trace[t][i + 1] = Ev("delay", delay_between_requests, 0)
              ELSE i < Len(trace[t]) => trace[t][i + 1].op # "delay"
        /\ \A i \in Ops(t, "delay") :
              /\ i > 1 /\ (i - 1) \in Fetches(t)
              /\ trace[t][i - 1].res = 1

\* a run with a fetch that failed and was followed at once by the next fetch, and a
\* fetch that succeeded and was followed by the delay and then the next fetch
C27_Witness ==
    \E t \in Threads :
        /\ \E i \in Fetches(t) :
              /\ trace[t][i].res = 0 /\ i < Len(trace[t])
              /\ trace[t][i + 1].op = "fetch"
        /\ \E i \in Fetches(t) :
              /\ trace[t][i].res = 1 /\ i + 1 < Len(trace[t])
              /\ trace[t][i + 1].op = "delay" /\ trace[t][i + 2].op = "fetch"

\* what the store holds for a thread: its row, its watermark, its posts
StoreOf(t) == [row |-> t \in rows, wm |-> wm[t], posts |-> posts[t]]

\* the watermark the calls of a run leave: that of the last update that changed a row
WmAfter(t) ==
    LET ups == {i \in Ops(t, "update") : trace[t][i].res = 1}
    IN  IF ups = {} THEN atStart[t].wm
        ELSE trace[t][CHOOSE i \in ups : \A j \in ups : j <= i].arg

\* the posts the bulk inserts of a run reported as added
ReportedAdded(t) ==
    UNION {SeqToSet(trace[t][i].items) : i \in {j \in Ops(t, "insert") : trace[t][j].res > 0}}

\* C28: with several pipelines running at once, every step changes the row, the
\* watermark and the posts of one thread at most, the thread whose pipeline made a
\* call in that step; and in every interleaving the store holds for each thread what
\* the calls of its own pipeline alone account for, which is what it holds when the
\* pipelines run one after the other.
C28_OwnThreadOnly ==
    /\ [][\A t \in Threads :
             StoreOf(t)' # StoreOf(t) =>
                 /\ pc'[t] \in ActivePcs
                 /\ trace'[t] # trace[t]
                 /\ \A s \in Threads \ {t} : StoreOf(s)' = StoreOf(s)]_vars
    /\ [](\A t \in Threads :
             runs[t] >= 1 =>
                 /\ (t \in rows) = (atStart[t].row \/ trace[t][1].res = 1)
                 /\ wm[t] = WmAfter(t)
                 /\ atStart[t].posts \cup ReportedAdded(t) \subseteq posts[t]
                 /\ posts[t] \subseteq atStart[t].posts \cup SeqToSet(Passed(trace[t])))

\* two pipelines are between a bulk insert and the watermark update that follows
\* it at the same moment, each with its posts stored
C28_Witness ==
    \E t \in Threads : \E s \in Threads \ {t} :
        /\ pc[t] = "wm" /\ pc[s] = "finalwm"
        /\ posts[t] # {} /\ posts[s] # {}
        /\ Cardinality(posts[t]) > 1

\* C29: a run makes one first fetch and at most N fetches in its loop, N being the
\* page count the first fetch showed, whatever fetch fails; and a pipeline that has
\* started returns its result to collect_today_threads, unless the process is
\* stopped first.
C29_PipelineTerminates ==
    /\ [](\A t \in Threads :
             /\ Cardinality(Ops(t, "probe")) <= 1
             /\ Cardinality(Ops(t, "fetch")) <= totalPages[t]
             /\ totalPages[t] \in {0, RemotePages(remoteN[t])})
    /\ \A t \in Threads :
          (pc[t] \in ActivePcs) ~> (pc[t] = "done" \/ phase = "crashed")

\* a run over two pages whose three fetches all failed but the first, and that has
\* delivered its result
C29_Witness ==
    \E t \in Threads :
        /\ pc[t] = "done" /\ t \notin raised
        /\ totalPages[t] = 2
        /\ Cardinality(Ops(t, "fetch")) = 2
        /\ \A i \in Ops(t, "fetch") : trace[t][i].res = 0
        /\ StatsOf(t) # {}

\* the premise of C29 about one fetch: a call of _fetch_page returns
C29_FetchReturns == (fState = "loop") ~> (fState = "returned")

\* the sum of posts_count over a list of result entries
RECURSIVE SumCounts(_)
SumCounts(s) == IF s = <<>> THEN 0 ELSE Head(s).posts_count + SumCounts(Tail(s))

\* the sum, over a set of threads, of what the pipeline of each returned
RECURSIVE SumReturned(_)
SumReturned(S) ==
    IF S = {} THEN 0
    ELSE LET t == CHOOSE x \in S : TRUE
         IN  (IF t \in raised THEN 0 ELSE collected[t]) + SumReturned(S \ {t})

\* C30: the total of collect_today_threads is the sum of posts_count over the
\* entries of its result list, at every moment and so at its return; and both are
\* the sum of what the pipelines that have delivered returned, whatever the order
\* in which the workers completed.
C30_TotalIsSum ==
    /\ totalCollected = SumCounts(stats)
    /\ totalCollected = SumReturned({t \in Threads : pc[t] = "done"})
    /\ \A t \in Threads : Cardinality(StatsOf(t)) <= 1

\* a call that ended with three entries, the thread submitted second delivered
\* first, and a total of 5 posts
C30_Witness ==
    /\ phase = "end" /\ Len(stats) = 3
    /\ stats[1].thread = "t2" /\ stats[1].posts_count = batch_size
    /\ totalCollected = batch_size + 2

\* ------------------------------------------------------------ C31
HybridEnds == {"hybrid_completed", "hybrid_failed"}

\* the entries of the scheduler's log that follow entry i
Following(i) == SubSeq(sched.log, i + 1, Len(sched.log))

\* C31: inside run_sequential_crawlers the full crawler is started only
\* directly after the sleep that directly follows the end of the hybrid run,
\* and a hybrid run that failed is followed by that sleep and that start as
\* one that completed is: the job is never back at its start or past the
\* sleep without them
C31_FullAfterHybridAndDelay ==
    /\ \A i \in 1..Len(sched.log) :
          sched.log[i] = "full_start" =>
             /\ i >= 4
             /\ sched.log[i - 1] = "sleep"
             /\ sched.log[i - 2] \in HybridEnds
             /\ sched.log[i - 3] = "hybrid_start"
    /\ \A i \in 1..Len(sched.log) :
          sched.log[i] \in HybridEnds =>
             /\ Len(Following(i)) = 0 => sched.pc \in {"hybrid_done", "stopped"}
             /\ Len(Following(i)) >= 1 => Following(i)[1] = "sleep"
             /\ Len(Following(i)) = 1 => sched.pc \in {"slept", "stopped"}
             /\ Len(Following(i)) >= 2 => Following(i)[2] = "full_start"

\* a hybrid run failed and the full crawler of the same job ran after the sleep
C31_Witness ==
    /\ Len(sched.log) >= 5
    /\ sched.log[Len(sched.log) - 3] = "hybrid_failed"
    /\ sched.log[Len(sched.log) - 2] = "sleep"
    /\ sched.log[Len(sched.log) - 1] = "full_start"
    /\ sched.log[Len(sched.log)] \in {"full_completed", "full_failed"}
    /\ sched.pc = "idle"

\* ------------------------------------------------------------ C32
\* the posts of page p of a thread that have a body
BodiesOfPage(t, p) == SeqToSet(PageItems(remoteN[t], p)) \ emptyBody[t]

\* C32: when the first, forward sync of a thread skipped pages whose fetch failed
\* and the next sync of the thread, over the unchanged remote, returned without a
\* failed fetch or store call, every post with a body of every skipped page is in
\* the store.
C32_SkippedPageRecovered ==
    \A t \in Threads :
        (CleanReturn(t) /\ runs[t] >= 1) =>
            \A p \in skippedBefore[t] : BodiesOfPage(t, p) \subseteq posts[t]

\* ------------------------------------------------------------ C33
\* C33: a watermark never moves backwards: every step that changes the stored
\* watermark of a thread that had one stores a post that is newer in the remote
\* order than the post it replaces.
C33_WatermarkNeverBack ==
    [][\A t \in Threads :
          (wm'[t] # wm[t] /\ wm[t] # None) => (wm'[t] # None /\ wm'[t] >= wm[t])]_vars

\* ------------------------------------------------------------ C34
\* a run of collect_thread_posts that has collected no new post so far
NothingNew(t) == runs[t] >= 1 /\ emitted[t] = <<>>

\* C34: a run of collect_thread_posts that collects no new post (the watermark is
\* met first, every post is already stored, or no page is fetched) calls neither
\* batch_insert_posts nor update_last_post_id, leaves the posts and the watermark
\* of the thread as they were at its start, and returns 0.
C34_NothingNewNoWrite ==
    \A t \in Threads :
        NothingNew(t) =>
            /\ Ops(t, "insert") = {}
            /\ Ops(t, "update") = {}
            /\ posts[t] = atStart[t].posts
            /\ wm[t] = atStart[t].wm
            /\ collected[t] = 0
            /\ \A i \in StatsOf(t) : stats[i].posts_count = 0

\* a reverse run fetched the page of the watermark, met it before any new post and returned
C34_Witness ==
    \E t \in Threads :
        /\ NothingNew(t) /\ Returned(t)
        /\ ~isNew[t]
        /\ atStart[t].wm # None
        /\ \E i \in Ops(t, "fetch") : trace[t][i].res = 1
        /\ posts[t] # {}

\* a forward run found every post of every page stored and returned
C34_WitnessAllStored ==
    \E t \in Threads :
        /\ NothingNew(t) /\ Returned(t)
        /\ isNew[t]
        /\ \E i \in Ops(t, "fetch") : trace[t][i].res = 1
        /\ posts[t] # {}

\* a run whose first fetch succeeded got no page in its loop and returned
C34_WitnessNoPage ==
    \E t \in Threads :
        /\ NothingNew(t) /\ Returned(t)
        /\ ~ProbeFailed(t)
        /\ Ops(t, "fetch") # {}
        /\ \A i \in Ops(t, "fetch") : trace[t][i].res = 0

\* ------------------------------------------------------------ C35
\* C35: in every state every stored post belongs to a thread that has a row in
\* f319_list (no post without its thread).
C35_NoOrphanPosts ==
    \A t \in Threads : \A id \in posts[t] : t \in rows

====
